---- MODULE Spec2Model ----
(***************************************************************************)
(* A model of lib/parse.js: the tokenizer (getToken), the recursive        *)
(* descent parser (parseObject ... parseEnd) and the circular reference    *)
(* resolver (isCircular, parseCircular) over the module state jsonText,    *)
(* index, c, token, tokenType, path and stack.                             *)
(*                                                                         *)
(* Characters are UTF-16 code units (integers); the empty string that      *)
(* charAt gives past the end of the text is Ch.eof.  A text, a token and   *)
(* a key are sequences of code units.  Containers live in a heap and are   *)
(* named by their heap index, so that aliasing is visible.                 *)
(***************************************************************************)
EXTENDS Integers, Sequences, FiniteSets, TLC

\* The code units of the characters the source names.
Ch ==
  [ eof |-> 0 - 1,
    tab |-> 9, lf |-> 10, cr |-> 13, space |-> 32, bs |-> 8, ff |-> 12,
    quote |-> 34, hash |-> 35, dollar |-> 36, plus |-> 43, comma |-> 44,
    minus |-> 45, dot |-> 46, slash |-> 47, zero |-> 48, one |-> 49,
    four |-> 52, nine |-> 57, colon |-> 58, at |-> 64,
    A |-> 65, E |-> 69, F |-> 70, Z |-> 90,
    lbrack |-> 91, backslash |-> 92, rbrack |-> 93, underscore |-> 95,
    a |-> 97, b |-> 98, c |-> 99, e |-> 101, f |-> 102, l |-> 108, n |-> 110, o |-> 111, p |-> 112,
    r |-> 114, s |-> 115, t |-> 116, u |-> 117, x |-> 120, z |-> 122,
    lbrace |-> 123, rbrace |-> 125, tilde |-> 126 ]

\* token types enumeration
TOKENTYPE ==
  [ NULL |-> 0, DELIMITER |-> 1, NUMBER |-> 2, STRING |-> 3, SYMBOL |-> 4,
    UNKNOWN |-> 5 ]

\* map with all delimiters: '' { } [ ] : ,
DELIMITERS ==
  { Ch.eof, Ch.lbrace, Ch.rbrace, Ch.lbrack, Ch.rbrack, Ch.colon, Ch.comma }

\* a table of escape characters in which \n and \r are confused
ESCAPE_CHARACTERS_Confused ==
  (Ch.quote :> Ch.quote) @@ (Ch.backslash :> Ch.backslash) @@
  (Ch.slash :> Ch.slash) @@ (Ch.b :> Ch.bs) @@ (Ch.f :> Ch.ff) @@
  (Ch.n :> Ch.cr) @@ (Ch.r :> Ch.lf) @@ (Ch.t :> Ch.tab)

\* map with all escape characters (\u is handled by getToken)
ESCAPE_CHARACTERS ==
  (Ch.quote :> Ch.quote) @@ (Ch.backslash :> Ch.backslash) @@
  (Ch.slash :> Ch.slash) @@ (Ch.b :> Ch.bs) @@ (Ch.f :> Ch.ff) @@
  (Ch.n :> Ch.lf) @@ (Ch.r :> Ch.cr) @@ (Ch.t :> Ch.tab)

\* jsonText.charAt(i): the empty string past the end
charAt(text, i) == IF i >= 0 /\ i < Len(text) THEN text[i + 1] ELSE Ch.eof

isAlpha(ch) ==
  \/ ch >= Ch.a /\ ch <= Ch.z
  \/ ch >= Ch.A /\ ch <= Ch.Z
  \/ ch = Ch.underscore

isHex(ch) ==
  \/ ch >= Ch.zero /\ ch <= Ch.nine
  \/ ch >= Ch.a /\ ch <= Ch.f
  \/ ch >= Ch.A /\ ch <= Ch.F

isDigit(ch) == ch >= Ch.zero /\ ch <= Ch.nine

isWhitespace(ch) == ch \in { Ch.space, Ch.tab, Ch.lf, Ch.cr }

\* the value of one hexadecimal digit, as parseInt(hex, 16) reads it
hexDigit(ch) ==
  IF ch >= Ch.zero /\ ch <= Ch.nine THEN ch - Ch.zero
  ELSE IF ch >= Ch.a /\ ch <= Ch.f THEN ch - Ch.a + 10
  ELSE ch - Ch.A + 10

RECURSIVE parseInt16(_)
parseInt16(hex) ==
  IF hex = << >> THEN 0
  ELSE 16 * parseInt16(SubSeq(hex, 1, Len(hex) - 1)) + hexDigit(hex[Len(hex)])

----------------------------------------------------------------------------
\* Errors.  A SyntaxError made by createSyntaxError carries a 'char'
\* property; the plain Error parseCircular throws carries none.

NoError == [ kind |-> "none", msg |-> "", hasChar |-> FALSE, char |-> 0 ]

\* createSyntaxError(message, c): at is {} when the optional argument is
\* not given, and then the offset is index - token.length.
createSyntaxError(message, at, idx, tok) ==
  [ kind |-> "SyntaxError", msg |-> message, hasChar |-> TRUE,
    char |-> IF at = {} THEN idx - Len(tok) ELSE CHOOSE o \in at : TRUE ]

\* throw new Error('Invalid circular reference "' + object.$ref + '"')
circularError ==
  [ kind |-> "Error", msg |-> "Invalid circular reference", hasChar |-> FALSE,
    char |-> 0 ]

----------------------------------------------------------------------------
\* The tokenizer.  A scan is the triple the tokenizer works on: the cursor,
\* the token formed so far and the error thrown, if any.

Scan(i, tok, e) == [ index |-> i, token |-> tok, err |-> e ]

\* while (c === ' ' || c === '\t' || c === '\n' || c === '\r') next()
RECURSIVE skipWhitespace(_, _)
skipWhitespace(text, i) ==
  IF isWhitespace(charAt(text, i)) THEN skipWhitespace(text, i + 1) ELSE i

\* while (isDigit(c)) { token += c; next() }
RECURSIVE scanDigits(_, _, _)
scanDigits(text, i, tok) ==
  IF isDigit(charAt(text, i))
  THEN scanDigits(text, i + 1, Append(tok, charAt(text, i)))
  ELSE Scan(i, tok, NoError)

\* while (isAlpha(c)) { token += c; next() }
RECURSIVE scanAlpha(_, _, _)
scanAlpha(text, i, tok) ==
  IF isAlpha(charAt(text, i))
  THEN scanAlpha(text, i + 1, Append(tok, charAt(text, i)))
  ELSE Scan(i, tok, NoError)

\* while (c !== '') { token += c; next() }
RECURSIVE scanRest(_, _, _)
scanRest(text, i, tok) ==
  IF charAt(text, i) # Ch.eof
  THEN scanRest(text, i + 1, Append(tok, charAt(text, i)))
  ELSE Scan(i, tok, NoError)

\* The stages of a scan are chained as  CHOOSE r \in { F(s) : s \in { v } } :
\* TRUE, which is F(v) with the scan v evaluated once.

\* a digit-expected error that reports the default offset, the start of the
\* token, instead of the cursor
digitExpectedAtToken(i, tok) ==
  Scan(i, tok,
       createSyntaxError("Invalid number, digit expected", {}, i, tok))

\* throw createSyntaxError('Invalid number, digit expected', index)
digitExpected(i, tok) ==
  Scan(i, tok,
       createSyntaxError("Invalid number, digit expected", { i }, i, tok))

\* the number branch of getToken, lines 166-183: the exponent
scanExponent(text, s) ==
  LET marker == charAt(text, s.index)
      sign == charAt(text, s.index + 1)
      signed == sign = Ch.plus \/ sign = Ch.minus
      i == IF signed THEN s.index + 2 ELSE s.index + 1
      tok == IF signed THEN s.token \o << marker, sign >>
             ELSE Append(s.token, marker)
  IN  IF marker # Ch.e /\ marker # Ch.E THEN s
      ELSE IF ~isDigit(charAt(text, i)) THEN digitExpected(i, tok)
      ELSE scanDigits(text, i, tok)

\* the number branch of getToken, lines 152-164: the fraction
scanFraction(text, s) ==
  IF charAt(text, s.index) # Ch.dot THEN scanExponent(text, s)
  ELSE IF ~isDigit(charAt(text, s.index + 1))
  THEN digitExpected(s.index + 1, Append(s.token, Ch.dot))
  ELSE CHOOSE r \in { scanExponent(text, s4) :
                       s4 \in { scanDigits(text, s.index + 1,
                                           Append(s.token, Ch.dot)) } } : TRUE

\* the number branch of getToken, lines 131-150: the sign or the leading
\* zero, then the digits
scanNumber(text, i0) ==
  LET c0 == charAt(text, i0)
      taken == c0 = Ch.minus \/ c0 = Ch.zero
  IN  IF c0 = Ch.minus /\ ~isDigit(charAt(text, i0 + 1))
      THEN digitExpected(i0 + 1, << c0 >>)
      ELSE CHOOSE r \in { scanFraction(text, s2) :
                           s2 \in { scanDigits(text,
                                      IF taken THEN i0 + 1 ELSE i0,
                                      IF taken THEN << c0 >> ELSE << >>) } } :
             TRUE

\* for (let u = 0; u < 4; u++) { if (!isHex(c)) throw ...; hex += c; next() }
RECURSIVE scanHex(_, _, _, _, _)
scanHex(text, i, tok, hex, u) ==
  IF u >= 4 THEN [ index |-> i, hex |-> hex, err |-> NoError ]
  ELSE IF ~isHex(charAt(text, i))
  THEN [ index |-> i, hex |-> hex,
         err |-> createSyntaxError("Invalid unicode character", {}, i, tok) ]
  ELSE scanHex(text, i + 1, tok, Append(hex, charAt(text, i)), u + 1)

\* while (c !== '' && c !== '"') { ... } of the string branch
RECURSIVE scanString(_, _, _)
scanString(text, i, tok) ==
  LET ch == charAt(text, i)
      esc == charAt(text, i + 1)
  IN  IF ch = Ch.eof \/ ch = Ch.quote THEN Scan(i, tok, NoError)
      ELSE IF ch = Ch.backslash
      THEN IF esc \in DOMAIN ESCAPE_CHARACTERS
           THEN scanString(text, i + 2, Append(tok, ESCAPE_CHARACTERS[esc]))
           ELSE IF esc = Ch.u
           THEN CHOOSE r \in
                  { IF h.err # NoError THEN Scan(h.index, tok, h.err)
                    ELSE scanString(text, h.index,
                                    Append(tok, parseInt16(h.hex))) :
                    h \in { scanHex(text, i + 2, tok, << >>, 0) } } : TRUE
           ELSE Scan(i + 1, tok,
                     createSyntaxError("Invalid escape character", { i + 1 },
                                       i + 1, tok))
      ELSE scanString(text, i + 1, Append(tok, ch))

\* a token returned with the cursor left where the token starts
TokUnread(start, s, type) ==
  [ index |-> start, token |-> s.token, tokenType |-> type, err |-> s.err,
    start |-> start ]

\* getToken(): the token that starts at or after cursor i0.  The result
\* gives the module state the call leaves: index, token, tokenType, and the
\* error it throws (NoError when it returns); start is the offset at which
\* the token starts, once the whitespace is skipped.
Tok(start, s, type) ==
  [ index |-> s.index, token |-> s.token, tokenType |-> type, err |-> s.err,
    start |-> start ]

\* the string branch of getToken after its loop, lines 230-235
closeString(text, s) ==
  IF s.err # NoError THEN s
  ELSE IF charAt(text, s.index) # Ch.quote
  THEN Scan(s.index, s.token,
            createSyntaxError("End of string expected", {}, s.index, s.token))
  ELSE Scan(s.index + 1, s.token, NoError)

\* the unknown branch of getToken after its loop, line 256
syntaxErrorInPart(s) ==
  Scan(s.index, s.token,
       createSyntaxError("Syntax error in part", {}, s.index, s.token))

\* getToken() after the whitespace is skipped: the token that starts at i
tokenAt(text, i) ==
  LET ch == charAt(text, i)
  IN  IF ch \in DELIMITERS
      THEN Tok(i, Scan(i + 1, IF ch = Ch.eof THEN << >> ELSE << ch >>, NoError),
               TOKENTYPE.DELIMITER)
      ELSE IF isDigit(ch) \/ ch = Ch.minus
      THEN CHOOSE r \in { Tok(i, s, TOKENTYPE.NUMBER) :
                          s \in { scanNumber(text, i) } } : TRUE
      ELSE IF ch = Ch.quote
      THEN CHOOSE r \in { Tok(i, s, TOKENTYPE.STRING) :
                          s \in { closeString(text, s0) :
                                  s0 \in { scanString(text, i + 1, << >>) } } } :
             TRUE
      ELSE IF isAlpha(ch)
      THEN CHOOSE r \in { Tok(i, s, TOKENTYPE.SYMBOL) :
                          s \in { scanAlpha(text, i, << >>) } } : TRUE
      ELSE CHOOSE r \in { Tok(i, syntaxErrorInPart(s), TOKENTYPE.UNKNOWN) :
                          s \in { scanRest(text, i, << >>) } } : TRUE

getToken(text, i0) ==
  CHOOSE r \in { tokenAt(text, i) : i \in { skipWhitespace(text, i0) } } : TRUE

----------------------------------------------------------------------------
\* Values.  A value is a tag and a payload of integers: the code units of a
\* string, the heap index of a container, the decimal value of a number.

String(tok) == [ t |-> "string", v |-> tok ]
Boolean(b) == [ t |-> "boolean", v |-> IF b THEN << 1 >> ELSE << 0 >> ]
Null == [ t |-> "null", v |-> << >> ]
Undefined == [ t |-> "undefined", v |-> << >> ]
Ref(id) == [ t |-> "container", v |-> << id >> ]

RECURSIVE digitsValue(_)
digitsValue(ds) ==
  IF ds = << >> THEN 0
  ELSE 10 * digitsValue(SubSeq(ds, 1, Len(ds) - 1)) + (ds[Len(ds)] - Ch.zero)

\* the position after the run of digits of tok that starts at position p
RECURSIVE digitsEnd(_, _)
digitsEnd(tok, p) ==
  IF p <= Len(tok) /\ isDigit(tok[p]) THEN digitsEnd(tok, p + 1) ELSE p

\* strip the trailing zeros of a mantissa into the exponent
RECURSIVE normalize(_, _)
normalize(mant, exp) ==
  IF mant = 0 THEN << 0, 0 >>
  ELSE IF mant % 10 = 0 THEN normalize(mant \div 10, exp + 1)
  ELSE << mant, exp >>

\* token / 1: the number a number token denotes, as sign, mantissa and
\* decimal exponent (the rounding to a double is left out)
toNumber(tok) ==
  LET neg == tok # << >> /\ tok[1] = Ch.minus
      p0 == IF neg THEN 2 ELSE 1
      p1 == digitsEnd(tok, p0)
      hasDot == p1 <= Len(tok) /\ tok[p1] = Ch.dot
      p2 == IF hasDot THEN digitsEnd(tok, p1 + 1) ELSE p1
      frac == IF hasDot THEN SubSeq(tok, p1 + 1, p2 - 1) ELSE << >>
      hasExp == p2 <= Len(tok)
      expNeg == hasExp /\ p2 + 1 <= Len(tok) /\ tok[p2 + 1] = Ch.minus
      p3 == IF hasExp /\ p2 + 1 <= Len(tok) /\ ~isDigit(tok[p2 + 1])
            THEN p2 + 2 ELSE p2 + 1
      e == IF hasExp THEN digitsValue(SubSeq(tok, p3, Len(tok))) ELSE 0
      n == normalize(digitsValue(SubSeq(tok, p0, p1 - 1) \o frac),
                     (IF expNeg THEN 0 - e ELSE e) - Len(frac))
  IN  << IF neg THEN 1 ELSE 0, n[1], n[2] >>

Number(tok) == [ t |-> "number", v |-> toNumber(tok) ]

\* the texts of the symbols
SymTrue == << Ch.t, Ch.r, Ch.u, Ch.e >>
SymFalse == << Ch.f, Ch.a, Ch.l, Ch.s, Ch.e >>
SymNull == << Ch.n, Ch.u, Ch.l, Ch.l >>

\* the reserved marker name, $ref
RefKey == << Ch.dollar, Ch.r, Ch.e, Ch.f >>

----------------------------------------------------------------------------
\* Containers.  An object keeps its keys in insertion order with the values
\* beside them; an array has values only.

\* a mapping created as a sequence: let object = []
NewObjectAsArray ==
  [ kind |-> "array", keys |-> << >>, vals |-> << >>, proto |-> 0 ]

\* {} and []: no own properties, the built-in prototype (proto 0; a container
\* of the heap is named by its index, and the null prototype is -1)
NewObject == [ kind |-> "object", keys |-> << >>, vals |-> << >>, proto |-> 0 ]
NewArray == [ kind |-> "array", keys |-> << >>, vals |-> << >>, proto |-> 0 ]

keyIndex(obj, key) == { i \in 1..Len(obj.keys) : obj.keys[i] = key }

\* object[key] = value, for an own data property
setProperty(obj, key, value) ==
  IF keyIndex(obj, key) # {}
  THEN [ obj EXCEPT !.vals[CHOOSE i \in keyIndex(obj, key) : TRUE] = value ]
  ELSE [ obj EXCEPT !.keys = Append(@, key), !.vals = Append(@, value) ]

\* the own property object[key], undefined when the key is absent
getProperty(obj, key) ==
  IF keyIndex(obj, key) # {}
  THEN obj.vals[CHOOSE i \in keyIndex(obj, key) : TRUE]
  ELSE Undefined

\* the key __proto__, which Object.prototype defines as an accessor
ProtoKey ==
  << Ch.underscore, Ch.underscore, Ch.p, Ch.r, Ch.o, Ch.t, Ch.o,
     Ch.underscore, Ch.underscore >>

\* the prototype chain of the object ends in Object.prototype, so the object
\* inherits the __proto__ accessor
RECURSIVE inheritsAccessor(_, _)
inheritsAccessor(h, obj) ==
  IF obj.proto = 0 THEN TRUE
  ELSE IF obj.proto < 0 THEN FALSE
  ELSE inheritsAccessor(h, h[obj.proto])

\* the container id is the container from, or on its prototype chain
RECURSIVE onChain(_, _, _)
onChain(h, from, id) ==
  IF from = id THEN TRUE
  ELSE IF h[from].proto <= 0 THEN FALSE
  ELSE onChain(h, h[from].proto, id)

\* TypeError: Cyclic __proto__ value
cyclicError ==
  [ kind |-> "TypeError", msg |-> "Cyclic __proto__ value", hasChar |-> FALSE,
    char |-> 0 ]

\* object[key] = value on the container id, line 343: an assignment to
\* __proto__ runs the inherited accessor, which sets the prototype to a
\* container or to null, ignores any other value and throws on a cycle;
\* every other assignment writes an own property
assign(h, id, key, value) ==
  IF key # ProtoKey \/ ~inheritsAccessor(h, h[id])
  THEN [ err |-> NoError, object |-> setProperty(h[id], key, value) ]
  ELSE IF value.t = "container"
  THEN IF onChain(h, value.v[1], id)
       THEN [ err |-> cyclicError, object |-> h[id] ]
       ELSE [ err |-> NoError,
              object |-> [ h[id] EXCEPT !.proto = value.v[1] ] ]
  ELSE IF value.t = "null"
  THEN [ err |-> NoError, object |-> [ h[id] EXCEPT !.proto = 0 - 1 ] ]
  ELSE [ err |-> NoError, object |-> h[id] ]

\* object.key: the own property, or the one inherited along the prototypes
RECURSIVE lookup(_, _, _)
lookup(h, obj, key) ==
  IF keyIndex(obj, key) # {} THEN getProperty(obj, key)
  ELSE IF obj.proto <= 0 THEN Undefined
  ELSE lookup(h, h[obj.proto], key)

\* array.push(value)
push(arr, value) == [ arr EXCEPT !.vals = Append(@, value) ]

\* arr[i] = value on a JavaScript array, for i <= arr.length
setAt(arr, i, value) ==
  IF i < Len(arr) THEN [ arr EXCEPT ![i + 1] = value ] ELSE Append(arr, value)

\* arr.length = n, for n <= arr.length
truncate(arr, n) == SubSeq(arr, 1, n)

\* n + '': the decimal digits of an array index
RECURSIVE toDecimal(_)
toDecimal(n) ==
  IF n < 10 THEN << Ch.zero + n >>
  ELSE Append(toDecimal(n \div 10), Ch.zero + (n % 10))

\* typeof object.$ref === 'string' && Object.keys(object).length === 1
isCircular(h, object) ==
  lookup(h, object, RefKey).t = "string" /\ Len(object.keys) = 1

----------------------------------------------------------------------------
\* The pointer collaborator (lib/pointer.js): a URI fragment pointer such as
\* #/a/b gives the segments a, b.  Every pointer of the inputs below starts
\* with the root marker #.

RECURSIVE splitSlash(_, _)
splitSlash(str, seg) ==
  IF str = << >> THEN << seg >>
  ELSE IF Head(str) = Ch.slash THEN << seg >> \o splitSlash(Tail(str), << >>)
  ELSE splitSlash(Tail(str), Append(seg, Head(str)))

\* ~1 stands for / and ~0 for ~
RECURSIVE unescapeSegment(_)
unescapeSegment(seg) ==
  IF Len(seg) >= 2 /\ seg[1] = Ch.tilde /\ seg[2] = Ch.one
  THEN << Ch.slash >> \o unescapeSegment(SubSeq(seg, 3, Len(seg)))
  ELSE IF Len(seg) >= 2 /\ seg[1] = Ch.tilde /\ seg[2] = Ch.zero
  THEN << Ch.tilde >> \o unescapeSegment(SubSeq(seg, 3, Len(seg)))
  ELSE IF seg = << >> THEN << >>
  ELSE << Head(seg) >> \o unescapeSegment(Tail(seg))

parsePointer(pointer) ==
  LET parts == Tail(splitSlash(pointer, << >>))
  IN  [ i \in 1..Len(parts) |-> unescapeSegment(parts[i]) ]

\* a resolver that does not look at the circularRefs switch
parseCircularAlways(self, pointer, enabled, pth, stk) ==
  LET pointerPath == parsePointer(pointer)
      mismatch == \E i \in 1..Len(pointerPath) :
                     i > Len(pth) \/ pointerPath[i] # pth[i]
  IN  IF mismatch THEN [ err |-> circularError, value |-> Undefined ]
      ELSE [ err |-> NoError,
             value |-> IF Len(pointerPath) < Len(stk)
                       THEN Ref(stk[Len(pointerPath) + 1])
                       ELSE Undefined ]

\* parseCircular(object): self is the marker mapping, pointer its $ref text.
\* The result is the error thrown, or the value returned.
parseCircular(self, pointer, enabled, pth, stk) ==
  LET pointerPath == parsePointer(pointer)
      mismatch == \E i \in 1..Len(pointerPath) :
                     i > Len(pth) \/ pointerPath[i] # pth[i]
  IN  IF ~enabled THEN [ err |-> NoError, value |-> self ]
      ELSE IF mismatch THEN [ err |-> circularError, value |-> Undefined ]
      ELSE [ err |-> NoError,
             value |-> IF Len(pointerPath) < Len(stk)
                       THEN Ref(stk[Len(pointerPath) + 1])
                       ELSE Undefined ]

\* parseSymbol(): the literal of a symbol token, or the error
parseSymbol(tok, idx) ==
  IF tok = SymTrue THEN [ err |-> NoError, value |-> Boolean(TRUE) ]
  ELSE IF tok = SymFalse THEN [ err |-> NoError, value |-> Boolean(FALSE) ]
  ELSE IF tok = SymNull THEN [ err |-> NoError, value |-> Null ]
  ELSE [ err |-> createSyntaxError("Unknown symbol", {}, idx, tok),
         value |-> Undefined ]

\* a parseEnd with the test for the end of the input inverted
parseEndInverted(tok, idx) ==
  IF tok # << >>
  THEN createSyntaxError("Unexpected end of json string", {}, idx, tok)
  ELSE createSyntaxError("Value expected", {}, idx, tok)

\* parseEnd(): the error when no production matches
parseEnd(tok, idx) ==
  IF tok = << >>
  THEN createSyntaxError("Unexpected end of json string", {}, idx, tok)
  ELSE createSyntaxError("Value expected", {}, idx, tok)

----------------------------------------------------------------------------
\* The input texts.

MaxLen == 3
MaxStrPieces == 2
MaxTokens == 2
MaxDepth == 2
MaxCalls == 2

RECURSIVE concat(_)
concat(pieces) ==
  IF pieces = << >> THEN << >> ELSE Head(pieces) \o concat(Tail(pieces))

\* the concatenations of at most n pieces of a vocabulary
Pieces(vocabulary, n) ==
  { concat(ps) : ps \in UNION { [1..k -> vocabulary] : k \in 0..n } }

Quoted(body) == << Ch.quote >> \o body \o << Ch.quote >>

\* number-like texts: every text of at most MaxLen of these characters
NumberTexts ==
  Pieces({ << Ch.zero >>, << Ch.one >>, << Ch.minus >>, << Ch.plus >>,
           << Ch.dot >>, << Ch.e >>, << Ch.E >> }, MaxLen)

\* string literals: an opening quote, at most MaxStrPieces pieces, and the
\* closing quote or the end of the text
StringPieces ==
  { << Ch.a >>, << Ch.backslash >>,
    << Ch.backslash, Ch.quote >>, << Ch.backslash, Ch.backslash >>,
    << Ch.backslash, Ch.slash >>, << Ch.backslash, Ch.b >>,
    << Ch.backslash, Ch.f >>, << Ch.backslash, Ch.n >>,
    << Ch.backslash, Ch.r >>, << Ch.backslash, Ch.t >>,
    << Ch.backslash, Ch.x >>,
    << Ch.backslash, Ch.u, Ch.zero, Ch.zero, Ch.four, Ch.one >>,
    << Ch.backslash, Ch.u, Ch.zero, Ch.zero, Ch.four >> }

StringTexts ==
  { << Ch.quote >> \o body \o close :
      body \in Pieces(StringPieces, MaxStrPieces),
      close \in { << >>, << Ch.quote >> } }

\* token sequences: every text of at most MaxTokens of these lexemes
TokenPieces ==
  { << Ch.lbrace >>, << Ch.rbrace >>, << Ch.lbrack >>, << Ch.rbrack >>,
    << Ch.colon >>, << Ch.comma >>, << Ch.space >>, << Ch.one >>,
    Quoted(<< Ch.a >>), Quoted(<< >>), SymTrue, << Ch.x >>, << Ch.at >>,
    << Ch.lbrack, Ch.one, Ch.comma >>,
    << Ch.lbrace >> \o Quoted(<< Ch.a >>) \o << Ch.colon >> }

TokenTexts == Pieces(TokenPieces, MaxTokens)

\* documents: containers nested at most MaxDepth deep around a leaf
KeyA == << Ch.a >>
KeyB == << Ch.b >>

Obj0 == << Ch.lbrace, Ch.rbrace >>
Obj1(k, v) ==
  << Ch.lbrace >> \o Quoted(k) \o << Ch.colon >> \o v \o << Ch.rbrace >>
Obj2(k1, v1, k2, v2) ==
  << Ch.lbrace >> \o Quoted(k1) \o << Ch.colon >> \o v1 \o << Ch.comma >>
    \o Quoted(k2) \o << Ch.colon >> \o v2 \o << Ch.rbrace >>
Arr0 == << Ch.lbrack, Ch.rbrack >>
Arr1(v) == << Ch.lbrack >> \o v \o << Ch.rbrack >>
Arr2(v1, v2) ==
  << Ch.lbrack >> \o v1 \o << Ch.comma >> \o v2 \o << Ch.rbrack >>
One == << Ch.one >>

\* the pointer text of a path: # followed by /segment for each segment
Pointer(segments) ==
  << Ch.hash >> \o concat([ i \in 1..Len(segments) |->
                              << Ch.slash >> \o segments[i] ])
Marker(segments) == Obj1(RefKey, Quoted(Pointer(segments)))

Pointers ==
  { << >>, << KeyA >>, << KeyB >>, << << Ch.one >> >>, << RefKey >> }

Leaves ==
  { One, Obj0, Arr0 } \cup { Marker(p) : p \in Pointers }
    \cup { Obj2(RefKey, One, RefKey, Quoted(Pointer(<< >>))),
           Obj2(RefKey, Quoted(Pointer(<< >>)), KeyA, One),
           Obj1(RefKey, One),
           Obj2(KeyA, One, KeyA, Arr0),
           Obj2(ProtoKey, Obj2(RefKey, Quoted(Pointer(<< >>)), KeyA, One),
                KeyA, One),
           Obj2(ProtoKey, One, ProtoKey, One),
           Obj2(ProtoKey, SymNull, ProtoKey, One),
           Obj1(ProtoKey, Marker(<< >>)) }

RECURSIVE Documents(_)
Documents(d) ==
  IF d = 0 THEN Leaves
  ELSE LET inner == Documents(d - 1)
       IN  Leaves
           \cup { Obj1(KeyA, v) : v \in inner }
           \cup { Obj2(KeyA, One, KeyB, v) : v \in inner }
           \cup { Obj2(KeyA, Marker(<< >>), KeyB, v) : v \in inner }
           \cup { Arr1(v) : v \in inner }
           \cup { Arr2(Marker(<< >>), v) : v \in inner }

Texts == NumberTexts \cup StringTexts \cup TokenTexts \cup Documents(MaxDepth)

\* the texts of the calls that follow the first one
LaterTexts ==
  { << >>, One, << Ch.lbrack >>, Obj1(KeyA, Marker(<< >>)),
    Arr1(Marker(<< KeyA >>)),
    Arr2(Marker(<< >>), Arr1(Marker(<< << Ch.one >> >>))) }

----------------------------------------------------------------------------
\* The state: the module state of parse.js, the configuration switch, the
\* heap of containers, and the call stack of the recursive descent.

VARIABLES jsonText, index, c, token, tokenType, path, stack,
          circularRefs, heap, frames, pc, retval, err,
          tokenStart,  \* auxiliary: the offset at which the current token starts
          calls        \* auxiliary: the number of calls of parse so far

vars == << jsonText, index, c, token, tokenType, path, stack,
           circularRefs, heap, frames, pc, retval, err, tokenStart,
           calls >>

\* the tokenizer's part of the state
lexer == << index, c, token, tokenType, tokenStart >>

\* the state when the module is loaded and parse has not been called
Init ==
  /\ jsonText = << >>
  /\ index = 0
  /\ c = Ch.eof
  /\ token = << >>
  /\ tokenType = TOKENTYPE.NULL
  /\ path = << >>
  /\ stack = << >>
  /\ circularRefs \in BOOLEAN
  /\ calls = 0
  /\ heap = << >>
  /\ frames = << >>
  /\ pc = "idle"
  /\ retval = Undefined
  /\ err = NoError
  /\ tokenStart = 0

\* the current token
Cur == [ index |-> index, token |-> token, tokenType |-> tokenType,
         err |-> NoError, start |-> tokenStart ]

isDelimiter(T, ch) == T.tokenType = TOKENTYPE.DELIMITER /\ T.token = << ch >>

\* the state a getToken() call leaves
Lex(T) ==
  /\ index' = T.index
  /\ c' = charAt(jsonText, T.index)
  /\ token' = T.token
  /\ tokenType' = T.tokenType
  /\ tokenStart' = T.start

Throw(e) == pc' = "error" /\ err' = e

Top == frames[Len(frames)]
Pop == SubSeq(frames, 1, Len(frames) - 1)

\* a reset that leaves the entries of the earlier call in place
clearNothing(entries) == entries

\* stack = []; path = []
clear(entries) == << >>

\* parse(text): lines 71-82, up to the call of parseObject
ParseCall(text) ==
  /\ pc \in { "idle", "done", "error" }
  /\ calls' = calls + 1
  /\ \E T \in { getToken(text, 0) } :
         /\ jsonText' = text
         /\ index' = T.index
         /\ c' = charAt(text, T.index)
         /\ token' = T.token
         /\ tokenType' = T.tokenType
         /\ tokenStart' = T.start
         /\ IF T.err # NoError THEN Throw(T.err)
            ELSE pc' = "value" /\ err' = NoError
  /\ stack' = clear(stack)
  /\ path' = clear(path)
  /\ heap' = << >>
  /\ frames' = << >>
  /\ retval' = Undefined
  /\ UNCHANGED circularRefs

\* parseObject(), lines 311-325: the opening brace, the empty object, the push
ParseObjectOpen ==
  /\ pc = "value"
  /\ isDelimiter(Cur, Ch.lbrace)
  /\ \E T1 \in { getToken(jsonText, index) } :
     LET id == Len(heap) + 1
     IN  IF T1.err # NoError
         THEN Lex(T1) /\ Throw(T1.err)
              /\ UNCHANGED << heap, stack, frames, retval >>
         ELSE IF isDelimiter(T1, Ch.rbrace)
         THEN \E T2 \in { getToken(jsonText, T1.index) } :
              /\ Lex(T2)
              /\ heap' = Append(heap, NewObject)
              /\ UNCHANGED << stack, frames >>
              /\ IF T2.err # NoError THEN Throw(T2.err) /\ UNCHANGED retval
                 ELSE pc' = "return" /\ retval' = Ref(id) /\ UNCHANGED err
         ELSE /\ Lex(T1)
              /\ heap' = Append(heap, NewObject)
              /\ stack' = setAt(stack, Len(stack), id)
              /\ frames' = Append(frames,
                                  [ fn |-> "parseObject",
                                    stackIndex |-> Len(stack),
                                    object |-> id, key |-> << >> ])
              /\ pc' = "key"
              /\ UNCHANGED << retval, err >>
  /\ UNCHANGED << calls, jsonText, circularRefs, path >>

\* parseObject(), lines 328-343: the key, the colon, the path entry, and the
\* call of parseObject for the value
ParseObjectKey ==
  /\ pc = "key"
  /\ \E T1 \in { getToken(jsonText, index) } :
         IF tokenType # TOKENTYPE.STRING
         THEN /\ Throw(createSyntaxError("Object key expected", {}, index, token))
              /\ UNCHANGED << lexer, path, frames >>
         ELSE IF T1.err # NoError
         THEN Lex(T1) /\ Throw(T1.err) /\ UNCHANGED << path, frames >>
         ELSE IF ~isDelimiter(T1, Ch.colon)
         THEN /\ Lex(T1)
              /\ Throw(createSyntaxError("Colon expected", {}, T1.index,
                                         T1.token))
              /\ UNCHANGED << path, frames >>
         ELSE \E T2 \in { getToken(jsonText, T1.index) } :
              /\ Lex(T2)
              /\ IF T2.err # NoError
                 THEN Throw(T2.err) /\ UNCHANGED << path, frames >>
                 ELSE /\ path' = setAt(path, Top.stackIndex, token)
                      /\ frames' = [ frames EXCEPT ![Len(frames)].key = token ]
                      /\ pc' = "value"
                      /\ UNCHANGED err
  /\ UNCHANGED << calls, jsonText, circularRefs, stack, heap, retval >>

\* parseObject(), lines 343-366: the value is stored; a comma leads to the
\* next key; the closing brace to the marker test and the pop
ParseObjectValue ==
  /\ pc = "return"
  /\ frames # << >>
  /\ Top.fn = "parseObject"
  /\ \E T1 \in { getToken(jsonText, index) } :
     LET assigned == assign(heap, Top.object, Top.key, retval)
         object == assigned.object
     IN  /\ heap' = [ heap EXCEPT ![Top.object] = object ]
         /\ IF assigned.err # NoError
            THEN /\ Throw(assigned.err)
                 /\ UNCHANGED << lexer, stack, path, frames, retval >>
            ELSE IF isDelimiter(Cur, Ch.comma)
            THEN /\ Lex(T1)
                 /\ IF T1.err # NoError THEN Throw(T1.err)
                    ELSE pc' = "key" /\ UNCHANGED err
                 /\ UNCHANGED << stack, path, frames, retval >>
            ELSE IF ~isDelimiter(Cur, Ch.rbrace)
            THEN /\ Throw(createSyntaxError("Comma or end of object expected",
                                            {}, index, token))
                 /\ UNCHANGED << lexer, stack, path,
                                 frames, retval >>
            ELSE IF T1.err # NoError
            THEN Lex(T1) /\ Throw(T1.err)
                 /\ UNCHANGED << stack, path, frames, retval >>
            ELSE IF isCircular(heap, object)
            THEN /\ Lex(T1)
                 /\ pc' = "circular"
                 /\ UNCHANGED << stack, path, frames, retval, err >>
            ELSE /\ Lex(T1)
                 /\ stack' = truncate(stack, Top.stackIndex)
                 /\ path' = truncate(path, Top.stackIndex)
                 /\ frames' = Pop
                 /\ retval' = Ref(Top.object)
                 /\ pc' = "return"
                 /\ UNCHANGED err
  /\ UNCHANGED << calls, jsonText, circularRefs >>

\* parseObject(), line 359: return parseCircular(object)
ParseCircular ==
  /\ pc = "circular"
  /\ \E r \in { parseCircular(Ref(Top.object),
                                lookup(heap, heap[Top.object], RefKey).v,
                                circularRefs, path, stack) } :
         IF r.err # NoError
         THEN Throw(r.err) /\ UNCHANGED << frames, retval >>
         ELSE /\ retval' = r.value
              /\ frames' = Pop
              /\ pc' = "return"
              /\ UNCHANGED err
  /\ UNCHANGED << calls, jsonText, lexer, path, stack,
                  circularRefs, heap >>

\* parseArray(), lines 377-390: the opening bracket, the empty array, the push
ParseArrayOpen ==
  /\ pc = "value"
  /\ ~isDelimiter(Cur, Ch.lbrace)
  /\ isDelimiter(Cur, Ch.lbrack)
  /\ \E T1 \in { getToken(jsonText, index) } :
     LET id == Len(heap) + 1
     IN  IF T1.err # NoError
         THEN Lex(T1) /\ Throw(T1.err)
              /\ UNCHANGED << heap, stack, frames, retval >>
         ELSE IF isDelimiter(T1, Ch.rbrack)
         THEN \E T2 \in { getToken(jsonText, T1.index) } :
              /\ Lex(T2)
              /\ heap' = Append(heap, NewArray)
              /\ UNCHANGED << stack, frames >>
              /\ IF T2.err # NoError THEN Throw(T2.err) /\ UNCHANGED retval
                 ELSE pc' = "return" /\ retval' = Ref(id) /\ UNCHANGED err
         ELSE /\ Lex(T1)
              /\ heap' = Append(heap, NewArray)
              /\ stack' = setAt(stack, Len(stack), id)
              /\ frames' = Append(frames,
                                  [ fn |-> "parseArray",
                                    stackIndex |-> Len(stack),
                                    object |-> id, key |-> << >> ])
              /\ pc' = "item"
              /\ UNCHANGED << retval, err >>
  /\ UNCHANGED << calls, jsonText, circularRefs, path >>

\* parseArray(), lines 394-395: the path entry of the item, and the call of
\* parseObject for it
ParseArrayItem ==
  /\ pc = "item"
  /\ path' = setAt(path, Top.stackIndex,
                   toDecimal(Len(heap[Top.object].vals)))
  /\ pc' = "value"
  /\ UNCHANGED << calls, jsonText, lexer, stack, circularRefs,
                  heap, frames, retval, err >>

\* parseArray(), lines 395-413: the item is pushed; a comma leads to the next
\* item; the closing bracket to the pop
ParseArrayValue ==
  /\ pc = "return"
  /\ frames # << >>
  /\ Top.fn = "parseArray"
  /\ \E T1 \in { getToken(jsonText, index) } :
         /\ heap' = [ heap EXCEPT ![Top.object] = push(@, retval) ]
         /\ IF isDelimiter(Cur, Ch.comma)
            THEN /\ Lex(T1)
                 /\ IF T1.err # NoError THEN Throw(T1.err)
                    ELSE pc' = "item" /\ UNCHANGED err
                 /\ UNCHANGED << stack, path, frames, retval >>
            ELSE IF ~isDelimiter(Cur, Ch.rbrack)
            THEN /\ Throw(createSyntaxError("Comma or end of array expected",
                                            {}, index, token))
                 /\ UNCHANGED << lexer, stack, path,
                                 frames, retval >>
            ELSE IF T1.err # NoError
            THEN Lex(T1) /\ Throw(T1.err)
                 /\ UNCHANGED << stack, path, frames, retval >>
            ELSE /\ Lex(T1)
                 /\ stack' = truncate(stack, Top.stackIndex)
                 /\ path' = truncate(path, Top.stackIndex)
                 /\ frames' = Pop
                 /\ retval' = Ref(Top.object)
                 /\ pc' = "return"
                 /\ UNCHANGED err
  /\ UNCHANGED << calls, jsonText, circularRefs >>

\* the token opens a container: parseObject or parseArray takes it
opensContainer == isDelimiter(Cur, Ch.lbrace) \/ isDelimiter(Cur, Ch.lbrack)

\* parseString()
ParseString ==
  /\ pc = "value"
  /\ ~opensContainer
  /\ tokenType = TOKENTYPE.STRING
  /\ \E T1 \in { getToken(jsonText, index) } :
         /\ Lex(T1)
         /\ IF T1.err # NoError THEN Throw(T1.err) /\ UNCHANGED retval
            ELSE pc' = "return" /\ retval' = String(token) /\ UNCHANGED err
  /\ UNCHANGED << calls, jsonText, path, stack, circularRefs, heap, frames >>

\* parseNumber()
ParseNumber ==
  /\ pc = "value"
  /\ ~opensContainer
  /\ tokenType # TOKENTYPE.STRING
  /\ tokenType = TOKENTYPE.NUMBER
  /\ \E T1 \in { getToken(jsonText, index) } :
         /\ Lex(T1)
         /\ IF T1.err # NoError THEN Throw(T1.err) /\ UNCHANGED retval
            ELSE pc' = "return" /\ retval' = Number(token) /\ UNCHANGED err
  /\ UNCHANGED << calls, jsonText, path, stack, circularRefs, heap, frames >>

\* parseSymbol()
ParseSymbol ==
  /\ pc = "value"
  /\ ~opensContainer
  /\ tokenType \notin { TOKENTYPE.STRING, TOKENTYPE.NUMBER }
  /\ tokenType = TOKENTYPE.SYMBOL
  /\ \E T1 \in { getToken(jsonText, index) },
        r \in { parseSymbol(token, index) } :
         IF r.err # NoError
         THEN Throw(r.err) /\ UNCHANGED << lexer, retval >>
         ELSE /\ Lex(T1)
              /\ IF T1.err # NoError THEN Throw(T1.err) /\ UNCHANGED retval
                 ELSE pc' = "return" /\ retval' = r.value /\ UNCHANGED err
  /\ UNCHANGED << calls, jsonText, path, stack, circularRefs, heap, frames >>

\* parseEnd()
ParseEnd ==
  /\ pc = "value"
  /\ ~opensContainer
  /\ tokenType \notin { TOKENTYPE.STRING, TOKENTYPE.NUMBER, TOKENTYPE.SYMBOL }
  /\ Throw(parseEnd(token, index))
  /\ UNCHANGED << calls, jsonText, lexer, path, stack,
                  circularRefs, heap, frames, retval >>

\* parse(text), lines 87-91: the check for trailing input, and the return
\* (no reviver is given)
ParseReturn ==
  /\ pc = "return"
  /\ frames = << >>
  /\ IF token # << >>
     THEN Throw(createSyntaxError("Unexpected characters", {}, index, token))
     ELSE pc' = "done" /\ UNCHANGED err
  /\ UNCHANGED << calls, jsonText, lexer, path, stack,
                  circularRefs, heap, frames, retval >>

\* parse is called on any of the input texts
Parse == pc = "idle" /\ \E text \in Texts : ParseCall(text)

\* parse is called again, after a call that returned or threw
Reparse ==
  /\ pc \in { "done", "error" }
  /\ calls < MaxCalls
  /\ \E text \in LaterTexts : ParseCall(text)

Next ==
  \/ Parse
  \/ Reparse
  \/ ParseObjectOpen
  \/ ParseObjectKey
  \/ ParseObjectValue
  \/ ParseCircular
  \/ ParseArrayOpen
  \/ ParseArrayItem
  \/ ParseArrayValue
  \/ ParseString
  \/ ParseNumber
  \/ ParseSymbol
  \/ ParseEnd
  \/ ParseReturn

Spec == Init /\ [][Next]_vars

\* the steps of a running call: once called, parse runs until it returns or
\* throws
Run ==
  \/ ParseObjectOpen
  \/ ParseObjectKey
  \/ ParseObjectValue
  \/ ParseCircular
  \/ ParseArrayOpen
  \/ ParseArrayItem
  \/ ParseArrayValue
  \/ ParseString
  \/ ParseNumber
  \/ ParseSymbol
  \/ ParseEnd
  \/ ParseReturn

FairSpec == Init /\ [][Next]_vars /\ WF_vars(Run)

----------------------------------------------------------------------------
\* What the claims speak of.

\* the path segment under which the container of frame f is being entered:
\* the current key of a mapping, the index of the item a sequence is reading
segment(f) ==
  IF f.fn = "parseObject" THEN f.key
  ELSE toDecimal(Len(heap[f.object].vals))

\* the keys and indices leading from the root to the container of frames[j]
keysTo(j) == [ i \in 1..(j - 1) |-> segment(frames[i]) ]

\* a mapping of the marker shape: exactly one key, $ref, with a string value
isMarkerShaped(o) ==
  o.kind = "object" /\ o.keys = << RefKey >> /\ o.vals[1].t = "string"

\* when the resolver runs (pc = "circular"): the parsed pointer of the marker
markerPointer == parsePointer(lookup(heap, heap[Top.object], RefKey).v)

\* the pointer equals the path to an open strict ancestor of the marker
\* (the marker is frames[Len(frames)], its ancestors the frames below it)
denotesAncestor ==
  /\ Len(markerPointer) + 1 < Len(frames)
  /\ markerPointer = keysTo(Len(markerPointer) + 1)

\* C1: with the feature enabled, a marker whose pointer is the path from the
\* root to one of its open ancestors is replaced by exactly that ancestor
\* container, wherever the marker occurs, also after earlier sibling markers
\* were closed.
C1_ResolvesToAncestor ==
  [][ (pc = "circular" /\ circularRefs /\ denotesAncestor)
        => (pc' = "return"
            /\ retval' = Ref(frames[Len(markerPointer) + 1].object)) ]_vars

\* C2: with the feature enabled, a marker whose pointer does not denote a
\* strict ancestor of the marker (too long, the marker itself, its own $ref
\* field, a sibling, a descendant) fails with 'Invalid circular reference';
\* so the resolver never returns undefined nor the marker mapping itself.
C2_RejectsNonAncestor ==
  [][ (pc = "circular" /\ circularRefs)
        => /\ ~denotesAncestor => (pc' = "error" /\ err' = circularError)
           /\ pc' = "return"
                => (retval' # Undefined /\ retval' # Ref(Top.object)) ]_vars

\* C3: with the feature disabled, every marker-shaped mapping that closes is
\* handed to the resolver and returned as that same one-field mapping,
\* unchanged, whatever the stack and path hold, and no 'Invalid circular
\* reference' error occurs.
C3_DisabledPassesThrough ==
  [][ ~circularRefs
        => /\ err'.msg # "Invalid circular reference"
           /\ (pc = "return" /\ frames # << >> /\ Top.fn = "parseObject"
               /\ isDelimiter(Cur, Ch.rbrace) /\ pc' # "error"
               /\ isMarkerShaped(heap'[Top.object]))
                => (pc' = "circular" /\ frames' = frames)
           /\ pc = "circular"
                => /\ pc' = "return"
                   /\ retval' = Ref(Top.object)
                   /\ heap' = heap ]_vars

\* C3 witness: a nested marker has been returned unchanged, feature disabled
C3_Witness ==
  /\ ~circularRefs
  /\ pc = "return"
  /\ frames # << >>
  /\ retval.t = "container"
  /\ isMarkerShaped(heap[retval.v[1]])
  /\ heap[retval.v[1]].vals[1].v = Pointer(<< KeyB >>)

\* C4: a complete value followed by trailing non-whitespace content fails
\* with 'Unexpected characters' at the offset of the first character of the
\* trailing content.
C4_TrailingInput ==
  [][ (pc = "return" /\ frames = << >> /\ tokenStart < Len(jsonText))
        => (pc' = "error" /\ err'.msg = "Unexpected characters"
            /\ err'.char = tokenStart) ]_vars

\* the number grammar '-'? ('0' | [1-9][0-9]*) ('.' [0-9]+)? ([eE] [+-]? [0-9]+)?
matchesNumber(tok) ==
  LET at(p) == IF p <= Len(tok) THEN tok[p] ELSE Ch.eof
      p0 == IF at(1) = Ch.minus THEN 2 ELSE 1
      p1 == digitsEnd(tok, p0)
      hasDot == at(p1) = Ch.dot
      p2 == IF hasDot THEN digitsEnd(tok, p1 + 1) ELSE p1
      hasExp == at(p2) = Ch.e \/ at(p2) = Ch.E
      p3 == IF at(p2 + 1) = Ch.plus \/ at(p2 + 1) = Ch.minus
            THEN p2 + 2 ELSE p2 + 1
      p4 == IF hasExp THEN digitsEnd(tok, p3) ELSE p2
  IN  /\ p1 > p0
      /\ at(p0) = Ch.zero => p1 = p0 + 1
      /\ hasDot => p2 > p1 + 1
      /\ hasExp => p4 > p3
      /\ p4 = Len(tok) + 1

LeadingZeroTexts ==
  { << Ch.zero, Ch.one >>, << Ch.minus, Ch.zero, Ch.one >>,
    << Ch.zero, Ch.zero >> }

\* C5: every number token matches the number grammar; a leading zero followed
\* by further digits (01, -01, 00) is not accepted and parse fails on it.
C5_NumberGrammar ==
  /\ (pc \notin { "idle", "error" } /\ tokenType = TOKENTYPE.NUMBER)
       => matchesNumber(token)
  /\ pc = "done" => jsonText \notin LeadingZeroTexts

\* the offsets of a number literal starting at offset p at which a digit is
\* mandatory and absent (the first such offset, or none)
missingDigit(text, p) ==
  LET a == IF charAt(text, p) = Ch.minus THEN p + 1 ELSE p
      b == digitsEnd(text, a + 1) - 1
      hasDot == charAt(text, b) = Ch.dot
      d == IF hasDot THEN digitsEnd(text, b + 2) - 1 ELSE b
      hasExp == charAt(text, d) = Ch.e \/ charAt(text, d) = Ch.E
      signed == charAt(text, d + 1) = Ch.plus \/ charAt(text, d + 1) = Ch.minus
      x == IF signed THEN d + 2 ELSE d + 1
  IN  IF charAt(text, p) = Ch.minus /\ ~isDigit(charAt(text, a)) THEN { a }
      ELSE IF hasDot /\ ~isDigit(charAt(text, b + 1)) THEN { b + 1 }
      ELSE IF hasExp /\ ~isDigit(charAt(text, x)) THEN { x }
      ELSE {}

startsNumber ==
  isDigit(charAt(jsonText, tokenStart))
    \/ charAt(jsonText, tokenStart) = Ch.minus

\* C6: a number literal that lacks a digit directly after the minus sign,
\* after the decimal point, or after the exponent marker and its optional
\* sign fails with 'Invalid number, digit expected', at the offset of the
\* character (or end of input) found where the digit was required.
C6_DigitExpected ==
  (pc # "idle" /\ startsNumber /\ missingDigit(jsonText, tokenStart) # {})
    => /\ pc = "error"
       /\ err.msg = "Invalid number, digit expected"
       /\ err.hasChar
       /\ err.char \in missingDigit(jsonText, tokenStart)

\* C6 witness: the digit is missing after the sign of an exponent, as in 1e+
C6_Witness ==
  /\ pc = "error"
  /\ err.msg = "Invalid number, digit expected"
  /\ token = << Ch.one, Ch.e, Ch.plus >>
  /\ err.char = 3

\* the character an escape of the set \" \\ \/ \b \f \n \r \t stands for
escapeOf(ch) ==
  CASE ch = Ch.quote -> 34
    [] ch = Ch.backslash -> 92
    [] ch = Ch.slash -> 47
    [] ch = Ch.b -> 8
    [] ch = Ch.f -> 12
    [] ch = Ch.n -> 10
    [] ch = Ch.r -> 13
    [] ch = Ch.t -> 9

isSimpleEscape(ch) ==
  ch \in { Ch.quote, Ch.backslash, Ch.slash, Ch.b, Ch.f, Ch.n, Ch.r, Ch.t }

\* the decoded text of a string literal, from the text after its opening
\* quote: the kind is ok, unicode, escape or unterminated
RECURSIVE decodeBody(_)
decodeBody(rest) ==
  LET after(n) == SubSeq(rest, n + 1, Len(rest))
      more(ch, r) ==
        IF r.kind = "ok" THEN [ kind |-> "ok", value |-> << ch >> \o r.value ]
        ELSE r
      fail(kind) == [ kind |-> kind, value |-> << >> ]
  IN  IF rest = << >> THEN fail("unterminated")
      ELSE IF rest[1] = Ch.quote THEN [ kind |-> "ok", value |-> << >> ]
      ELSE IF rest[1] # Ch.backslash
      THEN CHOOSE v \in { more(rest[1], r) : r \in { decodeBody(after(1)) } } :
             TRUE
      ELSE IF Len(rest) >= 2 /\ isSimpleEscape(rest[2])
      THEN CHOOSE v \in { more(escapeOf(rest[2]), r) :
                          r \in { decodeBody(after(2)) } } : TRUE
      ELSE IF Len(rest) >= 2 /\ rest[2] = Ch.u
      THEN IF Len(rest) >= 6 /\ \A k \in 3..6 : isHex(rest[k])
           THEN CHOOSE v \in
                  { more(4096 * hexDigit(rest[3]) + 256 * hexDigit(rest[4])
                           + 16 * hexDigit(rest[5]) + hexDigit(rest[6]), r) :
                    r \in { decodeBody(after(6)) } } : TRUE
           ELSE fail("unicode")
      ELSE fail("escape")

\* the string literal that starts at offset p of the text
literalAt(text, p) == decodeBody(SubSeq(text, p + 2, Len(text)))

stringFailure(kind) ==
  CASE kind = "unicode" -> "Invalid unicode character"
    [] kind = "escape" -> "Invalid escape character"
    [] kind = "unterminated" -> "End of string expected"

\* C7: the string token, and the value parse returns for a string literal,
\* is the decoded text (each escape replaced by its character, \uXXXX by the
\* character with that code); a \u with fewer than four hex digits fails with
\* 'Invalid unicode character', another escape with the invalid-escape error,
\* and the end of the input before the closing quote with 'End of string
\* expected'.
C7_StringDecoding ==
  /\ (pc # "idle" /\ charAt(jsonText, tokenStart) = Ch.quote)
       => IF literalAt(jsonText, tokenStart).kind = "ok"
          THEN /\ tokenType = TOKENTYPE.STRING
               /\ token = literalAt(jsonText, tokenStart).value
               /\ err.msg \notin { "Invalid unicode character",
                                   "Invalid escape character",
                                   "End of string expected" }
          ELSE /\ pc = "error"
               /\ err.msg = stringFailure(literalAt(jsonText, tokenStart).kind)
  /\ (pc = "done" /\ retval.t = "string")
       => retval.v = literalAt(jsonText, skipWhitespace(jsonText, 0)).value

\* C7 witness: "A" has been parsed to the one character A
C7_Witness ==
  /\ pc = "done"
  /\ retval = String(<< Ch.A >>)
  /\ jsonText = << Ch.quote, Ch.backslash, Ch.u, Ch.zero, Ch.zero, Ch.four,
                   Ch.one, Ch.quote >>

\* the keys of a mapping are pairwise different
uniqueKeys(o) == \A i, j \in 1..Len(o.keys) : o.keys[i] = o.keys[j] => i = j

\* the keys and the value texts of the mappings { k: v1, k: v2 }
repeatedKeys == { KeyA, KeyB, RefKey, ProtoKey }
repeatedValues == { One, Arr0, Quoted(Pointer(<< >>)), SymNull }

\* the parsed value is the value of the text
isValueOf(value, text) ==
  IF text = One THEN value = Number(One)
  ELSE IF text = Arr0 THEN value.t = "container" /\ heap[value.v[1]] = NewArray
  ELSE IF text = SymNull THEN value = Null
  ELSE value = String(Pointer(<< >>))

\* C8: a mapping that repeats a key, { k: v1, k: v2 }, is parsed without an
\* error; the resulting mapping holds the key exactly once, with the value of
\* its last occurrence; and in every mapping the keys are pairwise different
\* and the marker shape test sees the mapping after the de-duplication.
C8_LastWriteWins ==
  /\ \A o \in 1..Len(heap) : uniqueKeys(heap[o])
  /\ pc = "circular" => Len(heap[Top.object].keys) = 1
  /\ \A k \in repeatedKeys : \A v1, v2 \in repeatedValues :
       (pc \in { "done", "error" } /\ jsonText = Obj2(k, v1, k, v2))
         => /\ pc = "done"
            /\ retval = Ref(1)
            /\ heap[1].keys = << k >>
            /\ isValueOf(heap[1].vals[1], v2)

\* C9: every failure of parse, an invalid circular reference included, is an
\* error of the one syntax-error kind, with a message and a character offset.
C9_ErrorsCarryOffset ==
  pc = "error" => (err.kind = "SyntaxError" /\ err.msg # "" /\ err.hasChar
                   /\ err.char >= 0)

\* no production (mapping, sequence, string, number, symbol) matches the token
noProduction ==
  /\ ~isDelimiter(Cur, Ch.lbrace)
  /\ ~isDelimiter(Cur, Ch.lbrack)
  /\ tokenType \notin { TOKENTYPE.STRING, TOKENTYPE.NUMBER, TOKENTYPE.SYMBOL }

\* the input is exhausted: the current token starts at the end of the text
exhausted == tokenStart >= Len(jsonText)

\* C10: when a value is expected and no production matches, parse fails with
\* 'Unexpected end of json string' exactly when the input is exhausted and
\* with 'Value expected' exactly when a token (one of } ] : ,) is present; a
\* symbol other than true, false, null fails with 'Unknown symbol'.
C10_ValueExpected ==
  [][ pc = "value"
        => /\ noProduction
                => /\ pc' = "error"
                   /\ exhausted => err'.msg = "Unexpected end of json string"
                   /\ ~exhausted
                        => /\ err'.msg = "Value expected"
                           /\ token \in { << Ch.rbrace >>, << Ch.rbrack >>,
                                          << Ch.colon >>, << Ch.comma >> }
           /\ err'.msg \in { "Unexpected end of json string", "Value expected" }
                => /\ noProduction
                   /\ err'.msg = "Unexpected end of json string" <=> exhausted
           /\ (tokenType = TOKENTYPE.SYMBOL
               /\ token \notin { SymTrue, SymFalse, SymNull })
                => (pc' = "error" /\ err'.msg = "Unknown symbol") ]_vars

\* C10 witness: inside a sequence a closing brace stands where a value is
\* expected, and parse has failed with 'Value expected'
C10_Witness ==
  /\ pc = "error"
  /\ err.msg = "Value expected"
  /\ frames # << >>
  /\ token = << Ch.rbrace >>

\* the module state of parse.js
moduleState == << jsonText, index, c, token, tokenType, path, stack >>

\* the module state in which a call of parse on a freshly loaded module
\* starts to parse the text: the first token read, stack and path empty
freshStart(text) ==
  << text, getToken(text, 0).index, charAt(text, getToken(text, 0).index),
     getToken(text, 0).token, getToken(text, 0).tokenType, << >>, << >> >>

\* C11: a call of parse that follows an earlier call (one that returned, or
\* failed in a token, with open containers on the stack, or in the resolver)
\* starts from the state a freshly loaded module starts from: cursor, current
\* character, token, token type, stack and path are reset and nothing of the
\* earlier call is left; and the first token fails in the later call exactly
\* as it does in a fresh one.
C11_NoLeakBetweenCalls ==
  [][ (pc \in { "done", "error" } /\ calls' = calls + 1)
        => /\ moduleState' = freshStart(jsonText')
           /\ pc' = IF getToken(jsonText', 0).err = NoError THEN "value"
                    ELSE "error"
           /\ err' = getToken(jsonText', 0).err
           /\ heap' = << >> /\ frames' = << >> /\ retval' = Undefined ]_vars

\* C11 witness: a second call has resolved the marker of {"a":{"$ref":"#"}}
\* to the root mapping of its own text
C11_Witness ==
  /\ calls = 2
  /\ pc = "done"
  /\ circularRefs
  /\ jsonText = Obj1(KeyA, Marker(<< >>))
  /\ retval = Ref(1)
  /\ heap[1].vals = << Ref(1) >>

\* the current token is the end-of-input sentinel
isSentinel == tokenType = TOKENTYPE.DELIMITER /\ token = << >>

\* a call of parse is running
running == pc \notin { "idle", "done", "error" }

\* C12: parse terminates on every input text: a running call reaches its
\* return or its error; the cursor never moves backward in a call; a token
\* that getToken returned, other than the end-of-input sentinel, starts at or
\* after the old cursor and leaves the cursor at least one character past its
\* start; and the loops of parseObject and parseArray start an iteration only
\* after a token was consumed.
C12_Terminates ==
  /\ [](running ~> (pc \in { "done", "error" }))
  /\ []((running /\ ~isSentinel) => index > tokenStart)
  /\ [][ running
           => /\ index' >= index
              /\ tokenStart' >= tokenStart
              /\ tokenStart' # tokenStart => tokenStart' >= index
              /\ pc' \in { "key", "item" } => index' > index ]_vars

\* C12 witness: a call on a document with nested containers has returned,
\* the cursor one past the end of the text after the sentinel was read
C12_Witness ==
  /\ pc = "done"
  /\ Len(heap) = 3
  /\ isSentinel
  /\ index = Len(jsonText) + 1

\* the open non-empty containers in the ancestor chain of the value being
\* parsed, in nesting order: the containers of the running calls
openContainers == [ i \in 1..Len(frames) |-> frames[i].object ]

\* C13: at every point of a parse the stack holds exactly one entry per open
\* non-empty container of the ancestor chain, in nesting order, and path is
\* no longer than it, so the stack length is the current nesting depth; a
\* closed container has left the stack, also when it was marker-shaped, with
\* the feature enabled or disabled, and the stack is empty when parse
\* returns.
C13_StackIsAncestorChain ==
  (running \/ pc = "done")
    => /\ stack = openContainers
       /\ Len(path) <= Len(stack)

\* the messages of the errors raised without an explicit offset
defaultOffsetMessages ==
  { "Unexpected characters", "Object key expected", "Colon expected",
    "Comma or end of object expected", "Comma or end of array expected",
    "Unknown symbol", "Value expected", "End of string expected",
    "Invalid unicode character", "Syntax error in part" }

\* C14: an error raised without an explicit offset reports the index of the
\* text at which the current token starts, whatever the kind of the token,
\* string tokens (decoded, without their quotes) included.
C14_DefaultOffsetIsTokenStart ==
  (pc = "error" /\ err.msg \in defaultOffsetMessages)
    => err.char = tokenStart

\* C15: the character offset of every syntax error raised on a text of
\* length n lies in 0..n, also when the error is raised after the tokenizer
\* produced the end-of-input sentinel, as on the empty text or on [ .
C15_OffsetWithinText ==
  (pc = "error" /\ err.hasChar)
    => (0 <= err.char /\ err.char <= Len(jsonText))

\* a value is expected, the token is the opening delimiter and the next
\* character that is not white space is the closing one: {} or []
emptyAhead(open, close) ==
  /\ pc = "value"
  /\ isDelimiter(Cur, open)
  /\ charAt(jsonText, skipWhitespace(jsonText, index)) = close

\* the container was closed with nothing in it
closedEmpty(id) ==
  /\ heap[id].keys = << >>
  /\ heap[id].vals = << >>
  /\ \A i \in 1..Len(frames) : frames[i].object # id

\* what the step that parses an empty container of the kind does
parsesEmpty(kind) ==
  /\ stack' = stack
  /\ path' = path
  /\ frames' = frames
  /\ heap' = Append(heap, [ kind |-> kind, keys |-> << >>, vals |-> << >>,
                             proto |-> 0 ])
  /\ \/ pc' = "return" /\ retval' = Ref(Len(heap) + 1)
     \/ pc' = "error" /\ tokenStart' > tokenStart + 1

\* C16: {} and [] parse to an empty mapping and an empty sequence in one
\* step that writes no stack and no path entry (it fails only in the token
\* that follows); no stack entry is a container that was closed empty, and
\* the resolver never returns one.
C16_EmptyContainersLeaveNoEntry ==
  [][ /\ emptyAhead(Ch.lbrace, Ch.rbrace) => parsesEmpty("object")
      /\ emptyAhead(Ch.lbrack, Ch.rbrack) => parsesEmpty("array")
      /\ running => \A i \in 1..Len(stack) : ~closedEmpty(stack[i])
      /\ (pc = "circular" /\ pc' = "return" /\ retval'.t = "container")
           => ~closedEmpty(retval'.v[1]) ]_vars

\* C16 witness: [] has just been parsed as the second item of a sequence
\* whose first item was a marker; the stack is as it was before
C16_Witness ==
  /\ pc = "return"
  /\ jsonText = Arr2(Marker(<< >>), Arr0)
  /\ circularRefs
  /\ retval = Ref(3)
  /\ heap[3] = NewArray
  /\ heap[1].vals = << Ref(1) >>
  /\ stack = << 1, 2 >>

\* a step that closes a container: the value returned to parseObject or
\* parseArray was the last one and the closing delimiter was read
closes ==
  /\ pc = "return"
  /\ frames # << >>
  /\ pc' \in { "circular", "return" }

\* C17: the resolver is invoked for a just-closed value exactly when it is a
\* mapping with exactly one key, that key is $ref and its value is a string;
\* every other mapping and every sequence is returned as built.
C17_ResolverTrigger ==
  [][ closes
        => /\ pc' = "circular"
                <=> (Top.fn = "parseObject"
                     /\ isMarkerShaped(heap'[Top.object]))
           /\ pc' = "return"
                => (retval' = Ref(Top.object) /\ frames' = Pop) ]_vars

====
